---- MODULE Spec2Model ----
(***************************************************************************)
(* The enrollment payment handler (AWS Lambda, JavaScript).               *)
(*                                                                         *)
(* The repository holds three versions of the handler:                     *)
(*   part_000  src/unnamed/part_000        fee strings, no paid check      *)
(*   index_1   src/index.js lines 1-705    fee strings, paid check, PDF    *)
(*   index_2   src/index.js lines 707-1614 keyed tiers, honeypot, support  *)
(*                                         hours, invoice-number counter   *)
(* The variable `version` says which one is deployed.                      *)
(*                                                                         *)
(* An invocation runs synchronously from one `await` to the next, so one   *)
(* action is one collaborator call taking effect followed by the code up   *)
(* to the next call.                                                       *)
(***************************************************************************)
EXTENDS Integers, Sequences, FiniteSets, TLC

VARIABLES
  version,      \* the deployed handler version
  req,          \* req[r]: the event of invocation r
  outcome,      \* outcome[r]: what the collaborators answer to invocation r
  pc,           \* pc[r]: the await at which invocation r stands
  loc,          \* loc[r]: the local variables of invocation r
  resp,         \* resp[r]: the response returned by invocation r
  calls,        \* calls[r]: the collaborator calls invocation r has made
  application,  \* store: items pk = "application#ai-accelerator", by sk
  student,      \* store: items pk = "student#ai-accelerator", by sk
  invoiceCounter, \* store: item pk = "counter#invoice"
  captures,     \* gateway: the payment intents that succeeded
  outbox        \* mail transport: the messages accepted

vars == <<version, req, outcome, pc, loc, resp, calls, application, student,
          invoiceCounter, captures, outbox>>

----------------------------------------------------------------------------
(* Versions *)

part_000 == "part_000"
index_1 == "index_1"
index_2 == "index_2"
Versions == {part_000, index_1, index_2}

Reqs == {1, 2}

----------------------------------------------------------------------------
(* JavaScript values.  A text value is undefined, a number or a string of  *)
(* characters; a token is an opaque string, "<undefined>" when absent.     *)

undefined == [t |-> "undefined", n |-> 0, s |-> <<>>]
Num(n) == [t |-> "number", n |-> n, s |-> <<>>]
Str(s) == [t |-> "string", n |-> 0, s |-> s]

\* !v is FALSE
Truthy(v) ==
  CASE v.t = "undefined" -> FALSE
    [] v.t = "number" -> v.n # 0
    [] v.t = "string" -> v.s # <<>>

noToken == "<undefined>"
\* !tok is FALSE
TruthyToken(tok) == tok # noToken /\ tok # ""

Digits == <<"0", "1", "2", "3", "4", "5", "6", "7", "8", "9">>
IsDigit(c) == \E i \in 1..10 : Digits[i] = c
DigitValue(c) == (CHOOSE i \in 1..10 : Digits[i] = c) - 1
IsSpace(c) == c = " "

NaN == [nan |-> TRUE, n |-> 0]
Number(n) == [nan |-> FALSE, n |-> n]

RECURSIVE DropSpaces(_)
DropSpaces(s) ==
  IF s # <<>> /\ IsSpace(Head(s)) THEN DropSpaces(Tail(s)) ELSE s

RECURSIVE DigitPrefix(_, _)
\* the value of the longest prefix of digits of s, read after acc
DigitPrefix(s, acc) ==
  IF s # <<>> /\ IsDigit(Head(s))
  THEN DigitPrefix(Tail(s), 10 * acc + DigitValue(Head(s)))
  ELSE acc

\* parseInt of a string: leading white space, a sign, then the digits up to
\* the first other character; NaN when there is no digit
ParseIntString(s) ==
  LET t == DropSpaces(s)
      neg == t # <<>> /\ Head(t) = "-"
      u == IF t # <<>> /\ Head(t) \in {"-", "+"} THEN Tail(t) ELSE t
  IN IF u = <<>> \/ ~IsDigit(Head(u)) THEN NaN
     ELSE Number(IF neg THEN 0 - DigitPrefix(u, 0) ELSE DigitPrefix(u, 0))

\* parseInt(v): a number is converted to its numeral first, undefined to
\* "undefined"
parseInt(v) ==
  CASE v.t = "undefined" -> NaN
    [] v.t = "number" -> Number(v.n)
    [] v.t = "string" -> ParseIntString(v.s)

\* parseInt(v) || 0
ParseIntOrZero(v) == IF parseInt(v).nan THEN 0 ELSE parseInt(v).n

RECURSIVE Numeral(_)
\* n.toString() of a natural number
Numeral(n) ==
  IF n < 10 THEN <<Digits[n + 1]>>
  ELSE Numeral(n \div 10) \o <<Digits[(n % 10) + 1]>>

\* n.toString() of a number
toString(x) ==
  IF x.nan THEN <<"N", "a", "N">>
  ELSE IF x.n < 0 THEN <<"-">> \o Numeral(0 - x.n) ELSE Numeral(x.n)

UpperToLower ==
  ("A" :> "a") @@ ("B" :> "b") @@ ("C" :> "c") @@ ("X" :> "x") @@ ("Z" :> "z")

\* s.toLowerCase()
toLowerCase(s) ==
  [i \in 1..Len(s) |->
     IF s[i] \in DOMAIN UpperToLower THEN UpperToLower[s[i]] ELSE s[i]]

RECURSIVE TrimEnd(_)
TrimEnd(s) ==
  IF s # <<>> /\ IsSpace(s[Len(s)]) THEN TrimEnd(SubSeq(s, 1, Len(s) - 1)) ELSE s

\* s.trim()
trim(s) == TrimEnd(DropSpaces(s))

RECURSIVE Without(_, _)
\* s.replace(/[chars]/g, '')
Without(s, chars) ==
  IF s = <<>> THEN <<>>
  ELSE IF Head(s) \in chars THEN Without(Tail(s), chars)
       ELSE <<Head(s)>> \o Without(Tail(s), chars)

----------------------------------------------------------------------------
(* The tier catalogs *)

\* validTiers of part_000 and index_1, keyed by the amount's numeral
validTiersByAmount ==
  [k \in {Numeral(6000), Numeral(13500), Numeral(21000), Numeral(30000)} |->
     [tier |-> Str(k)]]

\* validTiers of index_2, keyed by name
validTiersByName ==
  ("scholarship" :> [tier |-> Str(Numeral(6000))])
  @@ ("vip" :> [tier |-> Str(Numeral(30000))])

\* Properties every object literal inherits from Object.prototype: each is a
\* function (truthy) that has no property named tier.
ObjectPrototypeKeys ==
  {"constructor", "toString", "valueOf", "hasOwnProperty", "isPrototypeOf",
   "propertyIsEnumerable", "toLocaleString"}

noTierInfo == [found |-> FALSE, tier |-> undefined]

\* validTiers[tier] of index_2: own property, then the prototype's
lookupTier(tier) ==
  IF tier \in DOMAIN validTiersByName
  THEN [found |-> TRUE, tier |-> validTiersByName[tier].tier]
  ELSE IF tier \in ObjectPrototypeKeys
       THEN [found |-> TRUE, tier |-> undefined]
       ELSE noTierInfo

\* parseTierAmount(feeString): the amount's numeral, or null (undefined here)
parseTierAmount(feeString) ==
  LET cleaned == Without(feeString, {"$", ","})
      amount == ParseIntString(cleaned)
  IN IF toString(amount) \in DOMAIN validTiersByAmount
     THEN Str(toString(amount))
     ELSE undefined

----------------------------------------------------------------------------
(* Pricing *)

supportPrice == 300
baseSeats == 10
maxAdditionalSeats == 40
maxSupportHours == 100

\* n * 0.1 in IEEE doubles is exactly n / 10 for every catalog amount
\* (6000, 13500, 21000, 30000), each a multiple of ten
TimesOneTenth(x) == IF x.nan THEN NaN ELSE Number(x.n \div 10)

Plus(x, y) == IF x.nan \/ y.nan THEN NaN ELSE Number(x.n + y.n)
Times(x, y) == IF x.nan \/ y.nan THEN NaN ELSE Number(x.n * y.n)

\* A faulty total that leaves the support hours out
totalAmountWithoutSupport(tierAmount, seats, supportHours) ==
  Plus(parseInt(tierAmount),
       Times(TimesOneTenth(parseInt(tierAmount)), Number(seats)))

\* totalAmount of index_2
totalAmountWithSupport(tierAmount, seats, supportHours) ==
  LET seatPrice == TimesOneTenth(parseInt(tierAmount))
  IN Plus(Plus(parseInt(tierAmount), Times(seatPrice, Number(seats))),
          Number(supportPrice * supportHours))

\* totalAmount of part_000 and index_1
totalAmountSeatsOnly(tierAmount, seats) ==
  LET seatPrice == TimesOneTenth(parseInt(tierAmount))
  IN Plus(parseInt(tierAmount), Times(seatPrice, Number(seats)))

\* A faulty conversion that leaves the total in dollars
totalAmountDollars(totalAmount) == totalAmount

\* totalAmountCents
totalAmountCents(totalAmount) == Times(totalAmount, Number(100))

----------------------------------------------------------------------------
(* Requests and responses *)

noFields ==
  [applicant |-> undefined, name |-> noToken, tier |-> noToken,
   finalFee |-> undefined, additionalSeats |-> undefined,
   addonSupportHours |-> undefined, paymentMethod |-> noToken,
   company |-> noToken, jobTitle |-> noToken, phone |-> noToken,
   country |-> noToken, paymentMethodId |-> noToken, mobile |-> undefined]

\* json.payment || json in index_2; json itself in the other versions, which
\* find no field of a wrapped body
paymentData(v, event) ==
  IF event.wrapped /\ v # index_2 THEN noFields ELSE event.f

noBody ==
  [empty |-> TRUE, error |-> noToken, message |-> noToken, success |-> noToken,
   enrolled |-> noToken, pendingPayment |-> noToken, paymentId |-> 0,
   status |-> noToken, requiresAction |-> noToken, details |-> noToken]

json == [noBody EXCEPT !.empty = FALSE]

corsHeaders ==
  [origin |-> "https://www.innovationbound.com", methods |-> "POST,OPTIONS"]
noHeaders == [origin |-> noToken, methods |-> noToken]

noResponse == [statusCode |-> 0, body |-> noBody, headers |-> noHeaders]

respond(code, message) ==
  [statusCode |-> code,
   body |-> IF code = 204 THEN noBody ELSE message,
   headers |-> corsHeaders]

errorBody(text) == [json EXCEPT !.error = text]

spamBody ==
  [json EXCEPT
     !.message = "Payment successful! Check your email for enrollment confirmation."]

paidBody(id) ==
  [json EXCEPT
     !.success = "true",
     !.message = "Payment successful! Check your email for enrollment confirmation.",
     !.enrolled = "true",
     !.paymentId = id]

invoicedBody(v) ==
  [json EXCEPT
     !.success = "true",
     !.message = IF v = index_2
                 THEN "Invoice sent! Check your inbox (it should arrive within a few minutes)."
                 ELSE "Invoice request received! We'll send your invoice within 24 hours.",
     !.enrolled = "false",
     !.pendingPayment = "true"]

incompleteBody(status) ==
  [json EXCEPT
     !.error = "Payment could not be completed.",
     !.status = status,
     !.requiresAction = IF status = "requires_action" THEN "true" ELSE "false"]

\* The fixed beginning of the already-paid message; company, email and date
\* of the stored item follow it
alreadyPaidError == "Payment already completed"
invalidTierError(v) ==
  IF v = index_2 THEN "Invalid tier. Must be \"scholarship\" or \"vip\"."
  ELSE "Invalid tier. Must be $6,000, $13,500, $21,000, or $30,000."

\* the catch of handler
handlerCatch ==
  respond(500, errorBody("Payment processing failed. Please try again."))

\* the catch of processCreditCardPayment, by error.type
creditCardCatch(type) ==
  respond(400,
    [json EXCEPT
       !.error = CASE type = "StripeCardError" -> "Payment declined"
                   [] type = "StripeInvalidRequestError" -> "Invalid payment information."
                   [] OTHER -> "Payment processing failed.",
       !.details = type])

\* the catch of processInvoiceRequest
invoiceCatch ==
  respond(500, errorBody("Invoice request failed. Please try again."))

----------------------------------------------------------------------------
(* Field validation *)

\* A faulty check that never misses the tier selector
tierAlwaysPresent(v, f) == TRUE

\* The field this version reads the tier selector from is present
tierPresent(v, f) ==
  IF v = index_2 THEN TruthyToken(f.tier) ELSE Truthy(f.finalFee)

tierRequiredError(v) ==
  IF v = index_2 THEN "Tier is required." ELSE "Final fee is required."

\* The first failing check of the required fields, "" when all pass
requiredFieldError(v, f) ==
  CASE ~Truthy(f.applicant) -> "Applicant email is required."
    [] ~TruthyToken(f.name) -> "Name is required."
    [] ~tierPresent(v, f) -> tierRequiredError(v)
    [] ~TruthyToken(f.paymentMethod) -> "Payment method is required."
    [] f.paymentMethod \notin {"credit-card", "invoice"} ->
         "Payment method must be \"credit-card\" or \"invoice\"."
    [] ~TruthyToken(f.company) -> "Company is required."
    [] ~TruthyToken(f.jobTitle) -> "Job title is required."
    [] ~TruthyToken(f.phone) -> "Phone is required."
    [] ~TruthyToken(f.country) -> "Country is required."
    [] OTHER -> ""

\* A handler that never looks at `mobile`
spamIgnored(f) == FALSE

\* mobile && mobile.trim() !== ''
spamDetected(f) == Truthy(f.mobile) /\ trim(f.mobile.s) # <<>>

\* applicant?.toLowerCase() in index_2
normalizeApplicant(v, a) ==
  IF v = index_2 /\ a.t = "string" THEN Str(toLowerCase(a.s)) ELSE a

----------------------------------------------------------------------------
(* The store, the gateway and the mail transport *)

lowerKey == <<"a", "@", "x">>
mixedKey == <<"A", "@", "x">>
twinKey == <<"b", "@", "x">>
Keys == {lowerKey, mixedKey, twinKey}

\* An Application item.  An attribute never SET is 0 or "<undefined>"; paidAt,
\* invoiceRequestedAt and enrolledAt hold the invocation that stamped them.
noApplication ==
  [exists |-> FALSE, paymentMethod |-> noToken, paymentStatus |-> noToken,
   paymentAmount |-> 0, finalFee |-> 0, additionalSeats |-> 0,
   addonSupportHours |-> 0, contact |-> <<>>, stripePaymentId |-> 0,
   paidAt |-> 0, invoiceRequestedAt |-> 0, enrolled |-> noToken]

\* The item the application-submission flow leaves
newApplication == [noApplication EXCEPT !.exists = TRUE]

noStudent ==
  [exists |-> FALSE, tier |-> undefined, paymentStatus |-> noToken,
   amountPaid |-> 0, totalAmount |-> 0, paymentPlan |-> noToken,
   baseSeats |-> 0, additionalSeats |-> 0, addonSupportHours |-> 0,
   totalSeats |-> 0, contact |-> <<>>, stripePaymentId |-> 0,
   enrolledAt |-> 0, paymentMethod |-> noToken]

noLocals ==
  [applicant |-> <<>>, item |-> noApplication, tierAmount |-> undefined,
   seats |-> 0, supportHours |-> 0, totalAmountCents |-> NaN,
   paymentIntent |-> 0, invoiceNum |-> 0]

contactOf(f) == <<f.name, f.company, f.jobTitle, f.phone, f.country>>

\* UpdateCommand of processCreditCardPayment: SET on the item, created when
\* absent
paidApplication(v, item, r, l, f) ==
  [item EXCEPT
     !.exists = TRUE,
     !.paymentMethod = "credit-card",
     !.paymentStatus = "paid",
     !.paymentAmount = l.totalAmountCents.n,
     !.finalFee = parseInt(l.tierAmount).n,
     !.additionalSeats = l.seats,
     !.addonSupportHours = IF v = index_2 THEN l.supportHours ELSE @,
     !.contact = Tail(contactOf(f)),
     !.stripePaymentId = l.paymentIntent,
     !.paidAt = r,
     !.enrolled = "true"]

\* UpdateCommand of processInvoiceRequest
pendingApplication(v, item, r, l, f) ==
  [item EXCEPT
     !.exists = TRUE,
     !.paymentMethod = "invoice",
     !.paymentStatus = "pending",
     !.paymentAmount = l.totalAmountCents.n,
     !.finalFee = parseInt(l.tierAmount).n,
     !.additionalSeats = l.seats,
     !.addonSupportHours = IF v = index_2 THEN l.supportHours ELSE @,
     !.contact = Tail(contactOf(f)),
     !.invoiceRequestedAt = r,
     !.enrolled = "false"]

\* PutCommand of processCreditCardPayment
completeStudent(v, r, l, f) ==
  [exists |-> TRUE, tier |-> l.tierAmount, paymentStatus |-> "complete",
   amountPaid |-> l.totalAmountCents.n, totalAmount |-> l.totalAmountCents.n,
   paymentPlan |-> "full", baseSeats |-> baseSeats, additionalSeats |-> l.seats,
   addonSupportHours |-> IF v = index_2 THEN l.supportHours ELSE 0,
   totalSeats |-> baseSeats + l.seats, contact |-> contactOf(f),
   stripePaymentId |-> l.paymentIntent, enrolledAt |-> r,
   paymentMethod |-> "credit-card"]

\* A faulty item that records the invoiced total as paid
pendingStudentPaidUp(v, r, l, f) ==
  [completeStudent(v, r, l, f) EXCEPT
     !.paymentStatus = "pending", !.paymentPlan = noToken,
     !.stripePaymentId = 0, !.paymentMethod = "invoice"]

\* PutCommand of processInvoiceRequest
pendingStudent(v, r, l, f) ==
  [exists |-> TRUE, tier |-> l.tierAmount, paymentStatus |-> "pending",
   amountPaid |-> 0, totalAmount |-> l.totalAmountCents.n,
   paymentPlan |-> noToken, baseSeats |-> baseSeats, additionalSeats |-> l.seats,
   addonSupportHours |-> IF v = index_2 THEN l.supportHours ELSE 0,
   totalSeats |-> baseSeats + l.seats, contact |-> contactOf(f),
   stripePaymentId |-> 0, enrolledAt |-> r, paymentMethod |-> "invoice"]

\* Date.now() as an invocation may read it when it renders its invoice: two
\* instants, and the one before them that an earlier invocation read
earlierInstant == 4
firstInstant == 5
Instants == {firstInstant, firstInstant + 1}

\* index_1: the number on the invoice, Date.now().toString().slice(-8)
lastEightDigits(now) == now % 100000000

\* if_not_exists(#num, :start) + :inc
invoiceStart == 4999
nextInvoiceNumber(counter) ==
  IF counter.exists THEN counter.number + 1 ELSE invoiceStart + 1

GatewayOutcomes ==
  {"succeeded", "requires_action", "StripeCardError",
   "StripeInvalidRequestError", "StripeAPIError"}

FailPoints ==
  {"none", "GetCommand", "UpdateCommand", "PutCommand", "readFile",
   "getNextInvoiceNumber", "generateInvoicePDF", "SendEmail"}

Call(op, ok) == [op |-> op, ok |-> ok]

----------------------------------------------------------------------------
(* The handler, from one await to the next *)

\* The fields the handler works with: the payment data, applicant normalized
fieldsOf(v, event) ==
  LET f == paymentData(v, event)
  IN [f EXCEPT !.applicant = normalizeApplicant(v, f.applicant)]

\* The invocation returns `response`
Return(r, response) ==
  /\ pc' = [pc EXCEPT ![r] = "done"]
  /\ resp' = [resp EXCEPT ![r] = response]

\* A faulty catch that swallows the error and reports success
flowCatchSwallowed(f) == respond(200, [json EXCEPT !.success = "true"])

\* A faulty catch that reports every failure of the flow as the already-paid
\* conflict
flowCatchAsConflict(f) == respond(400, errorBody(alreadyPaidError))

\* The catch that an error thrown inside the payment flow reaches
flowCatch(f) ==
  IF f.paymentMethod = "credit-card" THEN creditCardCatch("Error")
  ELSE invoiceCatch

\* index_2 checks `mobile` before the required fields; the other versions
\* do not read it
honeypot(v, event) == v = index_2 /\ spamDetected(paymentData(v, event))

\* A handler that answers no preflight
preflightUnanswered(event) == FALSE

\* event.httpMethod === 'OPTIONS'
preflight(event) == event.httpMethod = "OPTIONS"

\* handler, up to `await db.send(new GetCommand(...))`; JSON.parse throws on
\* a malformed body, into the catch of handler
handler(r) ==
  /\ pc[r] = "start"
  /\ LET f == fieldsOf(version, req[r])
         missing == requiredFieldError(version, f)
     IN IF preflight(req[r])
        THEN Return(r, respond(204, noBody)) /\ UNCHANGED loc
        ELSE IF req[r].malformed
        THEN Return(r, handlerCatch) /\ UNCHANGED loc
        ELSE IF honeypot(version, req[r])
        THEN Return(r, respond(200, spamBody)) /\ UNCHANGED loc
        ELSE IF missing # ""
        THEN Return(r, respond(400, errorBody(missing))) /\ UNCHANGED loc
        ELSE /\ pc' = [pc EXCEPT ![r] = "GetCommand"]
             /\ loc' = [loc EXCEPT ![r].applicant = f.applicant.s]
             /\ UNCHANGED resp
  /\ UNCHANGED <<version, req, outcome, calls, application, student,
                 invoiceCounter, captures, outbox>>

\* The tier this version reads from the request: tierAmount, or undefined
\* with found = FALSE when the tier check rejects it
tierOf(v, f) ==
  IF v = index_2 THEN lookupTier(f.tier)
  ELSE LET amount == parseTierAmount(f.finalFee.s)
       IN [found |-> Truthy(amount), tier |-> amount]

\* A faulty check that a requested invoice blocks too
alreadyPaidOrPending(v, item) == item.paymentStatus \in {"paid", "pending"}

\* The application is already paid, as this version checks it
alreadyPaid(v, item) == v # part_000 /\ item.paymentStatus = "paid"

\* A faulty check: only the upper limit of the seats
seatsAboveMax(seats) == seats > maxAdditionalSeats

\* seats < 0 || seats > 40
seatsOutOfRange(seats) == seats < 0 \/ seats > maxAdditionalSeats

\* A handler that does not check the support hours
supportHoursUnchecked(v, hours) == FALSE

\* index_2: supportHours < 0 || supportHours > 100
supportHoursOutOfRange(v, hours) ==
  v = index_2 /\ (hours < 0 \/ hours > maxSupportHours)

\* A handler that takes every read for a found application
notFoundIgnored(item) == FALSE

\* !application.Item
notFound(item) == ~item.exists

\* A flow that asks for no payment method id
paymentMethodIdOptional(f) == FALSE

\* !paymentMethodId
paymentMethodIdMissing(f) == ~TruthyToken(f.paymentMethodId)

\* handler after the GetCommand, and the start of the payment flow, up to its
\* first await:  [next, response, locals]
afterGet(v, f, item, l) ==
  LET tierInfo == tierOf(v, f)
      seats == ParseIntOrZero(f.additionalSeats)
      supportHours == IF v = index_2 THEN ParseIntOrZero(f.addonSupportHours) ELSE 0
      totalAmount == IF v = index_2
                     THEN totalAmountWithSupport(tierInfo.tier, seats, supportHours)
                     ELSE totalAmountSeatsOnly(tierInfo.tier, seats)
      computed == [l EXCEPT !.item = item, !.tierAmount = tierInfo.tier,
                            !.seats = seats, !.supportHours = supportHours,
                            !.totalAmountCents = totalAmountCents(totalAmount)]
      stop(response) == [next |-> "done", response |-> response,
                         locals |-> [l EXCEPT !.item = item]]
  IN CASE notFound(item) ->
            stop(respond(404, errorBody("Application not found. Please apply first.")))
       [] alreadyPaid(v, item) ->
            stop(respond(400, errorBody(alreadyPaidError)))
       [] ~tierInfo.found ->
            stop(respond(400, errorBody(invalidTierError(v))))
       [] seatsOutOfRange(seats) ->
            stop(respond(400, errorBody("Additional seats must be between 0 and 40.")))
       [] supportHoursOutOfRange(v, supportHours) ->
            stop(respond(400, errorBody("Addon support hours must be between 0 and 100.")))
       [] f.paymentMethod = "credit-card" /\ paymentMethodIdMissing(f) ->
            [next |-> "done",
             response |-> respond(400,
               errorBody("Payment method ID is required for credit card payments.")),
             locals |-> computed]
       [] f.paymentMethod = "credit-card" ->
            [next |-> "create", response |-> noResponse, locals |-> computed]
       [] OTHER ->
            [next |-> "UpdateCommand", response |-> noResponse, locals |-> computed]

\* The GetCommand is answered
GetCommand(r) ==
  /\ pc[r] = "GetCommand"
  /\ LET ok == outcome[r].fails # "GetCommand"
         step == afterGet(version, fieldsOf(version, req[r]),
                          application[loc[r].applicant], loc[r])
     IN /\ calls' = [calls EXCEPT ![r] = Append(@, Call("GetCommand", ok))]
        /\ IF ok
           THEN /\ pc' = [pc EXCEPT ![r] = step.next]
                /\ resp' = [resp EXCEPT ![r] = step.response]
                /\ loc' = [loc EXCEPT ![r] = step.locals]
           ELSE Return(r, handlerCatch) /\ UNCHANGED loc
  /\ UNCHANGED <<version, req, outcome, application, student, invoiceCounter,
                 captures, outbox>>

\* What the gateway answers to stripe.paymentIntents.create: an amount that
\* is not a number is refused as an invalid request
gatewayAnswer(l, scripted) ==
  IF l.totalAmountCents.nan THEN "StripeInvalidRequestError" ELSE scripted

\* The answer is an error thrown by the gateway client
thrown(answer) ==
  answer \in {"StripeCardError", "StripeInvalidRequestError", "StripeAPIError"}

\* A faulty check: paymentIntent.status !== 'failed'
notFailed(status) == status # "failed"

\* paymentIntent.status === 'succeeded'
succeeded(status) == status = "succeeded"

\* stripe.paymentIntents.create is answered; the gateway has captured the
\* amount when its answer is "succeeded"
paymentIntentsCreate(r) ==
  /\ pc[r] = "create"
  /\ LET answer == gatewayAnswer(loc[r], outcome[r].gateway)
     IN /\ calls' = [calls EXCEPT
                       ![r] = Append(@, Call("paymentIntents.create",
                                             answer = "succeeded"))]
        /\ captures' = IF answer = "succeeded"
                       THEN Append(captures,
                              [applicant |-> loc[r].applicant,
                               amount |-> loc[r].totalAmountCents.n,
                               by |-> r])
                       ELSE captures
        /\ CASE thrown(answer) ->
                  Return(r, creditCardCatch(answer)) /\ UNCHANGED loc
             [] ~succeeded(answer) ->
                  Return(r, respond(400, incompleteBody(answer))) /\ UNCHANGED loc
             [] OTHER ->
                  /\ loc' = [loc EXCEPT ![r].paymentIntent = Len(captures) + 1]
                  /\ pc' = [pc EXCEPT ![r] = "UpdateCommand"]
                  /\ UNCHANGED resp
  /\ UNCHANGED <<version, req, outcome, application, student, invoiceCounter,
                 outbox>>

\* The item the flow's UpdateCommand leaves
updatedApplication(v, item, r, l, f) ==
  IF f.paymentMethod = "credit-card" THEN paidApplication(v, item, r, l, f)
  ELSE pendingApplication(v, item, r, l, f)

\* The UpdateCommand on the Application is answered; a value that is not a
\* number cannot be written
UpdateCommand(r) ==
  /\ pc[r] = "UpdateCommand"
  /\ LET f == fieldsOf(version, req[r])
         ok == outcome[r].fails # "UpdateCommand" /\ ~loc[r].totalAmountCents.nan
     IN /\ calls' = [calls EXCEPT ![r] = Append(@, Call("UpdateCommand", ok))]
        /\ IF ok
           THEN /\ application' =
                     [application EXCEPT
                        ![loc[r].applicant] =
                           updatedApplication(version, @, r, loc[r], f)]
                /\ pc' = [pc EXCEPT ![r] = "PutCommand"]
                /\ UNCHANGED resp
           ELSE Return(r, flowCatch(f)) /\ UNCHANGED application
  /\ UNCHANGED <<version, req, outcome, loc, student, invoiceCounter, captures,
                 outbox>>

\* The student item the flow puts
putStudent(v, r, l, f) ==
  IF f.paymentMethod = "credit-card" THEN completeStudent(v, r, l, f)
  ELSE pendingStudent(v, r, l, f)

\* After the PutCommand: the templates are read and, in index_1, the invoice
\* is rendered; index_2 asks for the invoice number first
afterPut(v, f, fails) ==
  CASE fails = "readFile" ->
         [next |-> "done", response |-> flowCatch(f),
          rendered |-> <<Call("readFile", FALSE)>>]
    [] v = part_000 ->
         [next |-> "SendEmail", response |-> noResponse,
          rendered |-> <<Call("readFile", TRUE)>>]
    [] v = index_1 /\ fails = "generateInvoicePDF" ->
         [next |-> "done", response |-> flowCatch(f),
          rendered |-> <<Call("readFile", TRUE),
                         Call("generateInvoicePDF", FALSE)>>]
    [] v = index_1 ->
         [next |-> "SendEmail", response |-> noResponse,
          rendered |-> <<Call("readFile", TRUE),
                         Call("generateInvoicePDF", TRUE)>>]
    [] OTHER ->
         [next |-> "getNextInvoiceNumber", response |-> noResponse,
          rendered |-> <<Call("readFile", TRUE)>>]

\* The PutCommand of the student item is answered
PutCommand(r) ==
  /\ pc[r] = "PutCommand"
  /\ LET f == fieldsOf(version, req[r])
         ok == outcome[r].fails # "PutCommand"
         step == afterPut(version, f, outcome[r].fails)
     IN IF ok
        THEN /\ student' = [student EXCEPT
                              ![loc[r].applicant] =
                                 putStudent(version, r, loc[r], f)]
             /\ calls' = [calls EXCEPT
                            ![r] = Append(@, Call("PutCommand", TRUE))
                                   \o step.rendered]
             /\ pc' = [pc EXCEPT ![r] = step.next]
             /\ resp' = [resp EXCEPT ![r] = step.response]
             /\ loc' = IF version = index_1 /\ step.next = "SendEmail"
                       THEN [loc EXCEPT
                               ![r].invoiceNum = lastEightDigits(outcome[r].now)]
                       ELSE loc
        ELSE /\ calls' = [calls EXCEPT ![r] = Append(@, Call("PutCommand", FALSE))]
             /\ Return(r, flowCatch(f))
             /\ UNCHANGED <<student, loc>>
  /\ UNCHANGED <<version, req, outcome, application, invoiceCounter,
                 captures, outbox>>

\* index_2: the counter update of getNextInvoiceNumber is answered, inside
\* the async executor of generateInvoicePDF.  An error thrown there rejects
\* the executor's own promise, not the one the caller awaits, which is
\* then never settled.
getNextInvoiceNumber(r) ==
  /\ pc[r] = "getNextInvoiceNumber"
  /\ LET counted == outcome[r].fails # "getNextInvoiceNumber"
         rendered == outcome[r].fails # "generateInvoicePDF"
     IN IF counted
        THEN /\ invoiceCounter' =
                  [exists |-> TRUE, number |-> nextInvoiceNumber(invoiceCounter)]
             /\ loc' = [loc EXCEPT
                          ![r].invoiceNum = nextInvoiceNumber(invoiceCounter)]
             /\ calls' = [calls EXCEPT
                            ![r] = @ \o <<Call("getNextInvoiceNumber", TRUE),
                                          Call("generateInvoicePDF", rendered)>>]
             /\ pc' = [pc EXCEPT ![r] = IF rendered THEN "SendEmail" ELSE "hung"]
        ELSE /\ calls' = [calls EXCEPT
                            ![r] = Append(@, Call("getNextInvoiceNumber", FALSE))]
             /\ pc' = [pc EXCEPT ![r] = "hung"]
             /\ UNCHANGED <<invoiceCounter, loc>>
  /\ UNCHANGED <<version, req, outcome, resp, application, student, captures,
                 outbox>>

\* The success response of the flow
successResponse(v, f, l) ==
  IF f.paymentMethod = "credit-card" THEN respond(200, paidBody(l.paymentIntent))
  ELSE respond(200, invoicedBody(v))

\* ses.send is answered
SendEmail(r) ==
  /\ pc[r] = "SendEmail"
  /\ LET f == fieldsOf(version, req[r])
         ok == outcome[r].fails # "SendEmail"
     IN /\ calls' = [calls EXCEPT ![r] = Append(@, Call("SendEmail", ok))]
        /\ IF ok
           THEN /\ outbox' = Append(outbox,
                               [to |-> loc[r].applicant,
                                kind |-> f.paymentMethod,
                                invoiceNum |-> loc[r].invoiceNum])
                /\ Return(r, successResponse(version, f, loc[r]))
           ELSE Return(r, flowCatch(f)) /\ UNCHANGED outbox
  /\ UNCHANGED <<version, req, outcome, loc, application, student,
                 invoiceCounter, captures>>

Next ==
  \E r \in Reqs :
    \/ handler(r)
    \/ GetCommand(r)
    \/ paymentIntentsCreate(r)
    \/ UpdateCommand(r)
    \/ PutCommand(r)
    \/ getNextInvoiceNumber(r)
    \/ SendEmail(r)

----------------------------------------------------------------------------
(* Requests and initial states *)

\* An event whose body, if it has one, is the JSON text of the fields f,
\* wrapped in {payment: ...} or not
Event(method, wrapped, f) ==
  [httpMethod |-> method, wrapped |-> wrapped, f |-> f, malformed |-> FALSE]

\* The answers of collaborators that never fail and a gateway that captures
allGood == [gateway |-> "succeeded", fails |-> "none", now |-> firstInstant]

\* Tier selectors a client may send: the catalog's own, the fee string of no
\* tier, and strings that are no catalog entry but resolve to one
NamedTiers == {"scholarship", "vip", "$10,000", "constructor"}
FeeStrings ==
  {<<"$", "6", ",", "0", "0", "0">>,
   <<"$", "1", "3", ",", "5", "0", "0">>,
   <<"$", "2", "1", ",", "0", "0", "0">>,
   <<"$", "3", "0", ",", "0", "0", "0">>,
   <<"$", "1", "0", ",", "0", "0", "0">>,
   <<"$", "6", ",", "0", "0", "0", ".", "5", "0">>}

\* The fee strings the catalog of part_000 and index_1 lists (validTiers[k].fee)
CatalogFees ==
  {<<"$", "6", ",", "0", "0", "0">>,
   <<"$", "1", "3", ",", "5", "0", "0">>,
   <<"$", "2", "1", ",", "0", "0", "0">>,
   <<"$", "3", "0", ",", "0", "0", "0">>}

\* The tier selector of a request, in the field this version reads
withTier(v, f, selector) ==
  IF v = index_2 THEN [f EXCEPT !.tier = selector]
  ELSE [f EXCEPT !.finalFee = Str(selector)]

TierSelectors(v) == IF v = index_2 THEN NamedTiers ELSE FeeStrings
CatalogSelectors(v) == IF v = index_2 THEN DOMAIN validTiersByName ELSE CatalogFees
usualTier(v) ==
  IF v = index_2 THEN "scholarship" ELSE <<"$", "1", "3", ",", "5", "0", "0">>

\* A complete request
usualFields(v) ==
  withTier(v,
    [noFields EXCEPT
       !.applicant = Str(lowerKey), !.name = "Ann", !.additionalSeats = Num(5),
       !.addonSupportHours = IF v = index_2 THEN Num(3) ELSE undefined,
       !.paymentMethod = "credit-card", !.company = "Acme", !.jobTitle = "CTO",
       !.phone = "+1-212", !.country = "US", !.paymentMethodId = "pm_card_visa"],
    usualTier(v))

SeatInputs == {undefined, Num(0 - 1), Num(5), Num(40), Num(41), Str(<<"a", "b", "c">>)}
HourInputs(v) ==
  IF v = index_2 THEN {undefined, Num(3), Num(100), Num(101), Str(<<"x">>)}
  ELSE {undefined}
MobileInputs == {undefined, Str(<<" ">>), Str(<<"5", "5", "5">>)}

\* Requests with any subset of the required fields, in either body form, with
\* or without the honeypot
PresenceEvents(v) ==
  { Event("POST", w,
      [usualFields(v) EXCEPT
         !.applicant = a, !.name = n, !.tier = IF t THEN @ ELSE noToken,
         !.finalFee = IF t THEN @ ELSE undefined, !.paymentMethod = pm,
         !.company = c, !.jobTitle = j, !.phone = p, !.country = k,
         !.mobile = mob]) :
      w \in BOOLEAN, a \in {undefined, Str(lowerKey)}, n \in {noToken, "Ann"},
      t \in BOOLEAN, pm \in {noToken, "credit-card", "invoice", "paypal"},
      c \in {noToken, "Acme"}, j \in {noToken, "CTO"}, p \in {noToken, "+1-212"},
      k \in {noToken, "US"}, mob \in MobileInputs }

\* Requests with every required field, of any value
ValueEvents(v) ==
  { Event("POST", FALSE,
      withTier(v,
        [usualFields(v) EXCEPT
           !.applicant = Str(a), !.paymentMethod = pm, !.additionalSeats = s,
           !.addonSupportHours = h, !.paymentMethodId = id],
        t)) :
      a \in {lowerKey, mixedKey}, t \in TierSelectors(v), pm \in {"credit-card", "invoice"},
      s \in SeatInputs, h \in HourInputs(v), id \in {noToken, "pm_card_visa"} }

\* A selector that is present and is no tier of the catalog
unknownTier(v) ==
  IF v = index_2 THEN "$10,000" ELSE <<"$", "1", "0", ",", "0", "0", "0">>

\* Requests whose tier is no tier of the catalog, with or without a company
\* and a known payment method
UnknownTierEvents(v) ==
  { Event("POST", FALSE,
      withTier(v, [usualFields(v) EXCEPT !.company = c, !.paymentMethod = pm],
               unknownTier(v))) :
      c \in {noToken, "Acme"}, pm \in {"credit-card", "paypal"} }

\* The usual request by either method
UsualEvents(v) ==
  { Event("POST", FALSE, [usualFields(v) EXCEPT !.paymentMethod = pm]) :
      pm \in {"credit-card", "invoice"} }

\* Preflight requests
OptionsEvents(v) ==
  { Event("OPTIONS", w, f) : w \in BOOLEAN, f \in {noFields, usualFields(v)} }

\* Events whose body is no JSON text
MalformedEvents(v) ==
  { [e EXCEPT !.malformed = TRUE] : e \in OptionsEvents(v) \cup UsualEvents(v) }

Outcomes == [gateway : GatewayOutcomes, fails : FailPoints, now : {firstInstant}]

idle == Event("POST", FALSE, noFields)

\* An invocation before these ones
earlier == Cardinality(Reqs) + 1

\* The invoices numbered before the invocations start, in a world where some
\* were
earlierInvoices == 1

\* The locals of the earlier invocation that paid by card for the usual request
earlierLocals(v) ==
  [afterGet(v, usualFields(v), newApplication, noLocals).locals
     EXCEPT !.applicant = lowerKey, !.paymentIntent = 1,
            !.invoiceNum = CASE v = index_2 -> invoiceStart + earlierInvoices
                              [] v = index_1 -> lastEightDigits(earlierInstant)
                              [] OTHER -> 0]

\* The store, the gateway and the outbox before any payment: the applicant
\* has applied (or not)
FreshWorld(applied) ==
  /\ application = [k \in Keys |->
                      IF applied /\ k = lowerKey THEN newApplication
                      ELSE noApplication]
  /\ student = [k \in Keys |-> noStudent]
  /\ invoiceCounter = [exists |-> FALSE, number |-> 0]
  /\ captures = <<>>
  /\ outbox = <<>>

\* ... and after the earlier invocation has paid by card
PaidWorld ==
  LET l == earlierLocals(version)
      f == usualFields(version)
  IN /\ application = [k \in Keys |->
                         IF k = lowerKey
                         THEN paidApplication(version, newApplication, earlier, l, f)
                         ELSE noApplication]
     /\ student = [k \in Keys |->
                     IF k = lowerKey THEN completeStudent(version, earlier, l, f)
                     ELSE noStudent]
     /\ invoiceCounter = IF version = index_2
                         THEN [exists |-> TRUE,
                               number |-> invoiceStart + earlierInvoices]
                         ELSE [exists |-> FALSE, number |-> 0]
     /\ captures = <<[applicant |-> lowerKey, amount |-> l.totalAmountCents.n,
                      by |-> earlier]>>
     /\ outbox = <<[to |-> lowerKey, kind |-> "credit-card",
                    invoiceNum |-> l.invoiceNum]>>

\* Invocations that have not started
NotStarted(active) ==
  /\ pc = [r \in Reqs |-> IF r \in active THEN "start" ELSE "unused"]
  /\ loc = [r \in Reqs |-> noLocals]
  /\ resp = [r \in Reqs |-> noResponse]
  /\ calls = [r \in Reqs |-> <<>>]

\* Invocation 1 is given event e and the collaborators' answers o
Given(e, o) ==
  /\ req = [r \in Reqs |-> IF r = 1 THEN e ELSE idle]
  /\ outcome = [r \in Reqs |-> IF r = 1 THEN o ELSE allGood]

\* One invocation, of any request, against any store
Init ==
  /\ version \in Versions
  /\ NotStarted({1})
  /\ \/ /\ \E e \in PresenceEvents(version) \cup OptionsEvents(version)
                     \cup MalformedEvents(version)
                     \cup UnknownTierEvents(version) :
             Given(e, allGood)
        /\ FreshWorld(TRUE)
     \/ /\ \/ \E e \in ValueEvents(version) : Given(e, allGood)
           \/ \E e \in UsualEvents(version), o \in Outcomes : Given(e, o)
        /\ \/ FreshWorld(TRUE)
           \/ FreshWorld(FALSE)
           \/ PaidWorld

Spec == Init /\ [][Next]_vars

----------------------------------------------------------------------------
(* Two concurrent invocations for one applicant who has applied *)

ConcurrentEvents(v) ==
  { Event("POST", FALSE,
      [usualFields(v) EXCEPT !.paymentMethod = pm, !.additionalSeats = s]) :
      pm \in {"credit-card", "invoice"}, s \in {Num(2), Num(5)} }

ConcurrentOutcomes ==
  [gateway : {"succeeded", "StripeCardError"},
   fails : {"none", "UpdateCommand", "PutCommand", "SendEmail"},
   now : {firstInstant}]

\* The gateway is asked only by a card payment
Scripted(e, o) == e.f.paymentMethod = "credit-card" \/ o.gateway = "succeeded"

InitConc ==
  /\ version \in Versions
  /\ NotStarted(Reqs)
  /\ req \in [Reqs -> ConcurrentEvents(version)]
  /\ outcome \in [Reqs -> ConcurrentOutcomes]
  /\ \A r \in Reqs : Scripted(req[r], outcome[r])
  /\ FreshWorld(TRUE)

SpecConc == InitConc /\ [][Next]_vars

\* Two concurrent invocations whose invoices are rendered at any instants,
\* and whose counter update or rendering may fail
InvoiceOutcomes ==
  [gateway : {"succeeded"},
   fails : {"none", "getNextInvoiceNumber", "generateInvoicePDF"},
   now : Instants]

InitInvoices ==
  /\ version \in Versions
  /\ NotStarted(Reqs)
  /\ req \in [Reqs -> ConcurrentEvents(version)]
  /\ outcome \in [Reqs -> InvoiceOutcomes]
  /\ FreshWorld(TRUE)

SpecInvoices == InitInvoices /\ [][Next]_vars

----------------------------------------------------------------------------
(* Invocations one after the other: a request and its retry *)

\* Invocation r has returned, or will never return
over(r) == pc[r] \in {"done", "hung"}

\* An invocation takes its steps once those before it are over
NextInTurn ==
  \E r \in Reqs :
    /\ \A q \in Reqs : q < r => over(q)
    /\ \/ handler(r)
       \/ GetCommand(r)
       \/ paymentIntentsCreate(r)
       \/ UpdateCommand(r)
       \/ PutCommand(r)
       \/ getNextInvoiceNumber(r)
       \/ SendEmail(r)

RetryOutcomes ==
  [gateway : {"succeeded", "StripeCardError"},
   fails : {"none", "UpdateCommand", "PutCommand", "generateInvoicePDF",
            "getNextInvoiceNumber", "SendEmail"},
   now : {firstInstant}]

InitRetry ==
  /\ version \in Versions
  /\ NotStarted(Reqs)
  /\ req \in [Reqs -> ConcurrentEvents(version)]
  /\ outcome \in [Reqs -> RetryOutcomes]
  /\ \A r \in Reqs : Scripted(req[r], outcome[r])
  /\ FreshWorld(TRUE)

SpecRetry == InitRetry /\ [][NextInTurn]_vars

----------------------------------------------------------------------------
(* One invocation for every quote the catalog allows *)

QuoteEvents(v) ==
  { Event("POST", FALSE,
      withTier(v,
        [usualFields(v) EXCEPT
           !.paymentMethod = "invoice", !.additionalSeats = Num(s),
           !.addonSupportHours = IF v = index_2 THEN Num(h) ELSE undefined],
        t)) :
      t \in CatalogSelectors(v), s \in 0..maxAdditionalSeats,
      h \in IF v = index_2 THEN 0..maxSupportHours ELSE {0} }

InitQuote ==
  /\ version \in Versions
  /\ NotStarted({1})
  /\ \E e \in QuoteEvents(version) \cup UsualEvents(version) : Given(e, allGood)
  /\ FreshWorld(TRUE)

SpecQuote == InitQuote /\ [][Next]_vars

----------------------------------------------------------------------------
(* Twin invocations: the same request in two forms, each for an applicant *)
(* of its own, lowerKey and twinKey, whose items start the same           *)

PairEvents(v) ==
  { Event("POST", FALSE,
      withTier(v,
        [usualFields(v) EXCEPT
           !.paymentMethod = pm, !.additionalSeats = s, !.paymentMethodId = id],
        t)) :
      pm \in {"credit-card", "invoice"}, s \in {Num(5), Num(41)},
      id \in {noToken, "pm_card_visa"},
      t \in {usualTier(v), IF v = index_2 THEN "$10,000" ELSE Numeral(10000)} }

PairOutcomes ==
  [gateway : {"succeeded", "StripeCardError"},
   fails : {"none", "UpdateCommand", "getNextInvoiceNumber", "SendEmail"},
   now : {firstInstant}]

\* The event for the applicant twinKey, if it names an applicant
forTwin(e) ==
  IF e.f.applicant = undefined THEN e
  ELSE [e EXCEPT !.f.applicant = Str(twinKey)]

\* The same fields in a {payment: ...} wrapper
wrappedTwin(e) == [forTwin(e) EXCEPT !.wrapped = TRUE]

\* The same fields but for paymentMethodId, supplied by one and not the other
tokenTwin(e) ==
  [forTwin(e) EXCEPT
     !.f.paymentMethodId = IF @ = noToken THEN "pm_card_visa" ELSE noToken]

\* The store before the twins: both applicants have applied, or neither has
PairWorld(applied) ==
  /\ application = [k \in Keys |->
                      IF applied /\ k \in {lowerKey, twinKey} THEN newApplication
                      ELSE noApplication]
  /\ student = [k \in Keys |-> noStudent]
  /\ invoiceCounter = [exists |-> FALSE, number |-> 0]
  /\ captures = <<>>
  /\ outbox = <<>>

\* ... and after an earlier invocation has paid by card for each of them
PaidPairWorld ==
  LET l == earlierLocals(version)
      f == usualFields(version)
      paid == paidApplication(version, newApplication, earlier, l, f)
      complete == completeStudent(version, earlier, l, f)
  IN /\ application = (lowerKey :> paid) @@ (twinKey :> paid)
                        @@ (mixedKey :> noApplication)
     /\ student = (lowerKey :> complete) @@ (twinKey :> complete)
                    @@ (mixedKey :> noStudent)
     /\ invoiceCounter = IF version = index_2
                         THEN [exists |-> TRUE,
                               number |-> invoiceStart + earlierInvoices]
                         ELSE [exists |-> FALSE, number |-> 0]
     /\ captures = <<[applicant |-> lowerKey, amount |-> l.totalAmountCents.n,
                      by |-> earlier],
                     [applicant |-> twinKey, amount |-> l.totalAmountCents.n,
                      by |-> earlier]>>
     /\ outbox = <<[to |-> lowerKey, kind |-> "credit-card",
                    invoiceNum |-> l.invoiceNum],
                   [to |-> twinKey, kind |-> "credit-card",
                    invoiceNum |-> l.invoiceNum]>>

GivenTwins(e, twin, o) ==
  /\ req = [r \in Reqs |-> IF r = 1 THEN e ELSE twin]
  /\ outcome = [r \in Reqs |-> o]

InitPair ==
  /\ version \in Versions
  /\ NotStarted(Reqs)
  /\ \/ /\ \E e \in PresenceEvents(version) :
             ~e.wrapped /\ GivenTwins(e, wrappedTwin(e), allGood)
        /\ PairWorld(TRUE)
     \/ /\ \E e \in PairEvents(version), o \in PairOutcomes :
             /\ Scripted(e, o)
             /\ \E twin \in {wrappedTwin(e), tokenTwin(e)} : GivenTwins(e, twin, o)
        /\ \/ PairWorld(TRUE)
           \/ PairWorld(FALSE)
           \/ PaidPairWorld

SpecPair == InitPair /\ [][Next]_vars

----------------------------------------------------------------------------
(* Properties *)

\* The fields invocation r works with
F(r) == fieldsOf(version, req[r])

\* Invocation r has made the call `op`
Made(r, op) == \E i \in 1..Len(calls[r]) : calls[r][i].op = op

\* Invocation r has made the call `op` and it succeeded
Succeeded(r, op) ==
  \E i \in 1..Len(calls[r]) : calls[r][i].op = op /\ calls[r][i].ok

\* No call of invocation r has failed
NoFailure(r) == \A i \in 1..Len(calls[r]) : calls[r][i].ok

StoreWrites == {"UpdateCommand", "PutCommand", "getNextInvoiceNumber"}

\* Invocation r has charged nothing, written nothing and mailed nothing
NoEffect(r) ==
  \A i \in 1..Len(calls[r]) :
    calls[r][i].op \notin StoreWrites \cup {"paymentIntents.create", "SendEmail"}

\* Invocation r has run its first step
Started(r) == pc[r] \notin {"start", "unused"}

\* Invocation r is a POST
Post(r) == req[r].httpMethod = "POST"

\* Invocation r has returned the 400 error `text`
Rejected(r, text) ==
  /\ pc[r] = "done"
  /\ resp[r].statusCode = 400
  /\ resp[r].body.error = text

\* The number of amounts the gateway has captured for `applicant`
Captured(applicant) ==
  Cardinality({i \in 1..Len(captures) : captures[i].applicant = applicant})

----------------------------------------------------------------------------
\* C1: a POST that passed the field checks and read an application whose
\* paymentStatus is 'paid' is rejected with the 400 "Payment already
\* completed" and has charged nothing, written nothing and mailed nothing,
\* whichever payment method it asks for.
C1_PaidApplicationRejected ==
  \A r \in Reqs :
    loc[r].item.paymentStatus = "paid" =>
      Rejected(r, alreadyPaidError) /\ NoEffect(r)

\* The same, for the two handlers of index.js, which make the check
C1_PaidApplicationRejectedByIndex ==
  version # part_000 => C1_PaidApplicationRejected

C1_PaidApplicationRead ==
  \E r \in Reqs :
    /\ version # part_000
    /\ loc[r].item.paymentStatus = "paid"
    /\ F(r).paymentMethod = "invoice"
    /\ pc[r] = "done"

----------------------------------------------------------------------------
\* C2: when the gateway throws, or answers with a status other than
\* 'succeeded', the credit-card request returns a 400 and makes no write to
\* the application or to the student record.
C2_FailedChargeWritesNothing ==
  \A r \in Reqs :
    (Made(r, "paymentIntents.create") /\ ~Succeeded(r, "paymentIntents.create")) =>
      /\ pc[r] = "done"
      /\ resp[r].statusCode = 400
      /\ ~Made(r, "UpdateCommand")
      /\ ~Made(r, "PutCommand")
      /\ \A i \in 1..Len(captures) : captures[i].by # r

C2_ChargeIncomplete ==
  \E r \in Reqs :
    /\ Made(r, "paymentIntents.create")
    /\ outcome[r].gateway = "requires_action"
    /\ resp[r].statusCode = 400

----------------------------------------------------------------------------
\* C3: of two concurrent credit-card requests for the same applicant, whose
\* application starts unpaid, at most one has its amount captured.
C3_AtMostOneCapture ==
  (version = index_2 /\ \A r \in Reqs : F(r).paymentMethod = "credit-card") =>
    \A k \in Keys : Captured(k) <= 1

----------------------------------------------------------------------------
\* C4: once an application's paymentStatus is 'paid' no step changes it;
\* in particular an invoice request never puts 'pending' and enrolled false
\* over it.
C4_PaidIsFinal ==
  [][version = index_2 =>
       \A k \in Keys :
         application[k].paymentStatus = "paid" =>
           /\ application'[k].paymentStatus = "paid"
           /\ application'[k].enrolled = "true"]_vars

----------------------------------------------------------------------------
\* The value of `mobile` has a character that is not white space
NonBlank(v) == v.t = "string" /\ \E i \in 1..Len(v.s) : v.s[i] # " "

----------------------------------------------------------------------------
\* The amount the gateway captured for invocation r
Charged(r) ==
  LET i == CHOOSE i \in 1..Len(captures) : captures[i].by = r
  IN captures[i].amount

\* The additional seats invocation r asks for
SeatsAsked(r) == ParseIntOrZero(F(r).additionalSeats)

\* C6: a credit-card request for an existing, unpaid application, whose
\* capture succeeds and no later call of which fails, leaves the application
\* 'paid', enrolled, with the charged cents as paymentAmount, and a student
\* record that is 'complete', has 10 seats plus those asked for and the
\* charged cents as amountPaid and as totalAmount; it returns
\* 200 { success, enrolled: true, paymentId }.  For '$13,500' with 5
\* additional seats the charge is 2025000 cents and totalSeats is 15.
C6_CardPaymentEnrolls ==
  \A r \in Reqs :
    (/\ pc[r] = "done"
     /\ Succeeded(r, "paymentIntents.create")
     /\ NoFailure(r)
     /\ loc[r].item.exists
     /\ loc[r].item.paymentStatus # "paid") =>
      LET a == application[loc[r].applicant]
          s == student[loc[r].applicant]
      IN /\ a.paymentStatus = "paid"
         /\ a.enrolled = "true"
         /\ a.paymentAmount = Charged(r)
         /\ s.exists
         /\ s.paymentStatus = "complete"
         /\ s.totalSeats = 10 + SeatsAsked(r)
         /\ s.amountPaid = Charged(r)
         /\ s.totalAmount = Charged(r)
         /\ resp[r].statusCode = 200
         /\ resp[r].body.success = "true"
         /\ resp[r].body.enrolled = "true"
         /\ resp[r].body.paymentId = loc[r].paymentIntent
         /\ (/\ version # index_2
             /\ F(r).finalFee = Str(<<"$", "1", "3", ",", "5", "0", "0">>)
             /\ F(r).additionalSeats = Num(5)) =>
              Charged(r) = 2025000 /\ s.totalSeats = 15

C6_CardPaymentDone ==
  \E r \in Reqs :
    /\ version = index_1
    /\ pc[r] = "done"
    /\ Succeeded(r, "paymentIntents.create")
    /\ NoFailure(r)
    /\ loc[r].item.exists
    /\ F(r).finalFee = Str(<<"$", "1", "3", ",", "5", "0", "0">>)
    /\ F(r).additionalSeats = Num(5)
    /\ student[loc[r].applicant].totalSeats = 15

----------------------------------------------------------------------------
\* C7: an invoice request never calls the gateway; once accepted, with no
\* call of it failing, it leaves the application 'pending', not enrolled,
\* with invoiceRequestedAt stamped, and a student record that is 'pending',
\* has amountPaid 0, the quoted cents as totalAmount and 10 seats plus those
\* asked for; it returns 200 { success, enrolled: false, pendingPayment }.
C7_InvoiceLeavesPending ==
  \A r \in Reqs :
    F(r).paymentMethod = "invoice" =>
      /\ ~Made(r, "paymentIntents.create")
      /\ \A i \in 1..Len(captures) : captures[i].by # r
      /\ (pc[r] = "done" /\ Made(r, "UpdateCommand") /\ NoFailure(r)) =>
           LET a == application[loc[r].applicant]
               s == student[loc[r].applicant]
           IN /\ a.paymentStatus = "pending"
              /\ a.enrolled = "false"
              /\ a.invoiceRequestedAt = r
              /\ s.exists
              /\ s.paymentStatus = "pending"
              /\ s.amountPaid = 0
              /\ s.totalAmount = loc[r].totalAmountCents.n
              /\ s.totalSeats = 10 + SeatsAsked(r)
              /\ resp[r].statusCode = 200
              /\ resp[r].body.success = "true"
              /\ resp[r].body.enrolled = "false"
              /\ resp[r].body.pendingPayment = "true"

C7_InvoiceAccepted ==
  \E r \in Reqs :
    /\ F(r).paymentMethod = "invoice"
    /\ pc[r] = "done"
    /\ Made(r, "UpdateCommand")
    /\ NoFailure(r)
    /\ SeatsAsked(r) = 5
    /\ student[loc[r].applicant].totalSeats = 15

----------------------------------------------------------------------------
\* The tiers of the catalogs, by selector, with their base price in dollars
CatalogPrices ==
  IF version = index_2
  THEN {[selector |-> "scholarship", base |-> 6000],
        [selector |-> "vip", base |-> 30000]}
  ELSE {[selector |-> Str(<<"$", "6", ",", "0", "0", "0">>), base |-> 6000],
        [selector |-> Str(<<"$", "1", "3", ",", "5", "0", "0">>), base |-> 13500],
        [selector |-> Str(<<"$", "2", "1", ",", "0", "0", "0">>), base |-> 21000],
        [selector |-> Str(<<"$", "3", "0", ",", "0", "0", "0">>), base |-> 30000]}

\* The tier selector invocation r sends
Selector(r) == IF version = index_2 THEN F(r).tier ELSE F(r).finalFee

\* x * 0.10 rounded to the nearest whole number
RoundedTenth(x) == (x + 5) \div 10

\* The quote in cents for a base price, additional seats and support hours
QuoteCents(base, seats, hours) ==
  100 * (base + RoundedTenth(base) * seats + 300 * hours)

\* The support hours invocation r is charged for: those it asks for, where
\* the handler sells them
HoursAsked(r) ==
  IF version = index_2 THEN ParseIntOrZero(F(r).addonSupportHours) ELSE 0

\* C8: for every tier of the catalog, every count of additional seats in
\* 0..40 and of support hours in 0..100, the total in cents the handler
\* works with, and writes, is
\* 100 * (base + round(base * 0.10) * seats + 300 * hours): a whole number
\* that the tier, the seats and the hours determine.
C8_TotalIsTheQuote ==
  \A r \in Reqs :
    \A c \in CatalogPrices :
      (/\ Selector(r) = c.selector
       /\ SeatsAsked(r) \in 0..40
       /\ HoursAsked(r) \in 0..100
       /\ Made(r, "UpdateCommand")) =>
        LET cents == QuoteCents(c.base, SeatsAsked(r), HoursAsked(r))
        IN /\ loc[r].totalAmountCents = Number(cents)
           /\ Succeeded(r, "UpdateCommand") =>
                application[loc[r].applicant].paymentAmount = cents
           /\ Succeeded(r, "PutCommand") =>
                student[loc[r].applicant].totalAmount = cents

C8_LargestQuote ==
  \E r \in Reqs :
    /\ version = index_2
    /\ Selector(r) = "vip"
    /\ SeatsAsked(r) = 40
    /\ HoursAsked(r) = 100
    /\ Succeeded(r, "PutCommand")
    /\ student[loc[r].applicant].totalAmount = 18000000

----------------------------------------------------------------------------
RequiredFields ==
  <<"applicant", "name", "tier", "paymentMethod", "company", "jobTitle",
    "phone", "country">>

\* The required field is missing from the fields f, or is no valid value
MissingField(f, field) ==
  CASE field = "applicant" -> f.applicant = undefined \/ f.applicant = Str(<<>>)
    [] field = "name" -> f.name \in {noToken, ""}
    [] field = "tier" ->
         IF version = index_2 THEN f.tier \in {noToken, ""}
         ELSE f.finalFee = undefined \/ f.finalFee = Str(<<>>)
    [] field = "paymentMethod" -> f.paymentMethod \notin {"credit-card", "invoice"}
    [] field = "company" -> f.company \in {noToken, ""}
    [] field = "jobTitle" -> f.jobTitle \in {noToken, ""}
    [] field = "phone" -> f.phone \in {noToken, ""}
    [] OTHER -> f.country \in {noToken, ""}

\* The first of the required fields, in their order, that f misses; 0 if none
FirstMissing(f) ==
  LET missing == {i \in 1..Len(RequiredFields) : MissingField(f, RequiredFields[i])}
  IN IF missing = {} THEN 0
     ELSE CHOOSE i \in missing : \A j \in missing : i <= j

\* The error messages that name the required field
ErrorsNaming(f, field) ==
  CASE field = "applicant" -> {"Applicant email is required."}
    [] field = "name" -> {"Name is required."}
    [] field = "tier" -> {"Tier is required.", "Final fee is required."}
    [] field = "paymentMethod" ->
         IF f.paymentMethod \in {noToken, ""}
         THEN {"Payment method is required."}
         ELSE {"Payment method must be \"credit-card\" or \"invoice\"."}
    [] field = "company" -> {"Company is required."}
    [] field = "jobTitle" -> {"Job title is required."}
    [] field = "phone" -> {"Phone is required."}
    [] OTHER -> {"Country is required."}

\* C9: a POST that misses required fields (and has not tripped the
\* honeypot) returns one 400 whose error names the first missing field in
\* the order applicant, name, tier, paymentMethod (present, then one of
\* the two methods), company, jobTitle, phone, country, and has called no
\* collaborator.
C9_FirstMissingFieldNamed ==
  \A r \in Reqs :
    (/\ Post(r)
     /\ ~(version = index_2 /\ NonBlank(F(r).mobile))
     /\ FirstMissing(F(r)) # 0
     /\ Started(r)) =>
      /\ pc[r] = "done"
      /\ resp[r].statusCode = 400
      /\ resp[r].body.error \in ErrorsNaming(F(r), RequiredFields[FirstMissing(F(r))])
      /\ calls[r] = <<>>

C9_TierAndPhoneMissing ==
  \E r \in Reqs :
    /\ Post(r)
    /\ ~req[r].wrapped
    /\ FirstMissing(F(r)) = 3
    /\ MissingField(F(r), "phone")
    /\ resp[r].statusCode = 400

----------------------------------------------------------------------------
\* The selector is a price of the catalog once the currency sign and the
\* thousands separators are taken away, or one of its tier names
DenotesCatalogTier(selector) ==
  \E c \in CatalogPrices :
    \/ selector = c.selector
    \/ /\ version # index_2
       /\ selector.t = "string"
       /\ Without(selector.s, {"$", ","}) = Numeral(c.base)

\* C10: a request, valid in everything else, whose tier selector is not in
\* the catalog is rejected with the 400 that names the tier, with nothing
\* written, charged or mailed: a request gets past the tier validation only
\* if its selector denotes a tier of the catalog.
C10_OnlyCatalogTiersAccepted ==
  \A r \in Reqs :
    (/\ loc[r].item.exists
     /\ loc[r].item.paymentStatus # "paid"
     /\ SeatsAsked(r) \in 0..40
     /\ HoursAsked(r) \in 0..100
     /\ F(r).paymentMethodId # noToken
     /\ ~DenotesCatalogTier(Selector(r))) =>
      Rejected(r, invalidTierError(version)) /\ NoEffect(r)

\* ... as it holds for the selector "$10,000"
C10_TenThousandRejected ==
  \A r \in Reqs :
    (/\ loc[r].item.exists
     /\ loc[r].item.paymentStatus # "paid"
     /\ Selector(r) = IF version = index_2 THEN "$10,000"
                      ELSE Str(<<"$", "1", "0", ",", "0", "0", "0">>)) =>
      Rejected(r, invalidTierError(version)) /\ NoEffect(r)

----------------------------------------------------------------------------
(* Twin invocations compared *)

\* The applicant of twin r
TwinKey(r) == IF r = 1 THEN lowerKey ELSE twinKey

\* Invocation r has returned, or is left pending for ever
Finished(r) == pc[r] \in {"done", "hung"}

\* A time stamp, as twin r sees it: never, by an earlier invocation, its own
StampFor(r, stamp) == IF stamp = 0 THEN 0 ELSE IF stamp = r THEN 2 ELSE 1

\* A payment id, as twin r sees it: none, an earlier capture, its own
PaymentFor(r, id) ==
  IF id = 0 THEN 0
  ELSE IF id \in 1..Len(captures) /\ captures[id].by = r THEN 2 ELSE 1

\* What twin r has answered and done: its response, its calls and the
\* items, captures and mail of its applicant, with time stamps and payment
\* ids as it sees them
TwinView(r) ==
  LET k == TwinKey(r)
      a == application[k]
      s == student[k]
  IN [returned |-> pc[r],
      response |-> [resp[r] EXCEPT !.body.paymentId = PaymentFor(r, @)],
      calls |-> calls[r],
      application |->
        [a EXCEPT !.paidAt = StampFor(r, @),
                  !.invoiceRequestedAt = StampFor(r, @),
                  !.stripePaymentId = PaymentFor(r, @)],
      student |->
        [s EXCEPT !.enrolledAt = StampFor(r, @),
                  !.stripePaymentId = PaymentFor(r, @)],
      captured |->
        {[amount |-> captures[i].amount, own |-> captures[i].by = r] :
           i \in {j \in 1..Len(captures) : captures[j].applicant = k}},
      mailed |->
        Cardinality({i \in 1..Len(outbox) : outbox[i].to = k})]

\* C11: a body that wraps the payment fields in {payment: {...}} is
\* processed exactly like the body that has the same fields flat: against
\* the same store and the same answers of the collaborators, the two give
\* the same response and have the same effects.
C11_WrapperEquivalent ==
  (/\ ~req[1].wrapped
   /\ req[2] = wrappedTwin(req[1])
   /\ Finished(1)
   /\ Finished(2)) =>
    TwinView(1) = TwinView(2)

\* The same, for the handler that unwraps the body
C11_WrapperEquivalentUnwrapped ==
  version = index_2 => C11_WrapperEquivalent

C11_WrappedCardPaymentDone ==
  /\ version = index_2
  /\ ~req[1].wrapped
  /\ req[2] = wrappedTwin(req[1])
  /\ \A r \in Reqs : pc[r] = "done" /\ resp[r].statusCode = 200
                     /\ Succeeded(r, "paymentIntents.create")

----------------------------------------------------------------------------
\* Invocation r has made the call `op` and it failed
Failed(r, op) ==
  \E i \in 1..Len(calls[r]) : calls[r][i].op = op /\ ~calls[r][i].ok

\* What tells one error response from another: its status and its error
ErrorClass(response) == <<response.statusCode, response.body.error>>

\* The responses to a decline and to the other failures of the charge
ChargeFailureResponses ==
  {creditCardCatch(type) :
     type \in {"StripeCardError", "StripeInvalidRequestError", "StripeAPIError",
               "Error"}}

\* C12: when the update of the application or the put of the student record
\* fails after the gateway has captured the amount, the error response can
\* be told from those given for a decline or another failure of the
\* charge, and the capture stays as it is.
C12_WriteFailureDistinguished ==
  \A r \in Reqs :
    (/\ pc[r] = "done"
     /\ Succeeded(r, "paymentIntents.create")
     /\ Failed(r, "UpdateCommand") \/ Failed(r, "PutCommand")) =>
      /\ resp[r].statusCode >= 400
      /\ \A other \in ChargeFailureResponses :
           ErrorClass(resp[r]) # ErrorClass(other)
      /\ \E i \in 1..Len(captures) : captures[i].by = r

\* The part of it the handlers keep: an error is returned and the capture
\* is not reversed
C12_WriteFailureReported ==
  \A r \in Reqs :
    (/\ pc[r] = "done"
     /\ Succeeded(r, "paymentIntents.create")
     /\ Failed(r, "UpdateCommand") \/ Failed(r, "PutCommand")) =>
      /\ resp[r].statusCode >= 400
      /\ \E i \in 1..Len(captures) : captures[i].by = r

----------------------------------------------------------------------------
\* C13: when the rendering of the invoice or the sending of the email
\* fails after the application and the student record were written, the
\* request is still answered with the 200 success, and the written items
\* stay.
C13_MailFailureStillSuccess ==
  \A r \in Reqs :
    (/\ Succeeded(r, "UpdateCommand")
     /\ Succeeded(r, "PutCommand")
     /\ \/ Failed(r, "generateInvoicePDF")
        \/ Failed(r, "getNextInvoiceNumber")
        \/ Failed(r, "SendEmail")) =>
      /\ pc[r] = "done"
      /\ resp[r].statusCode = 200
      /\ application[loc[r].applicant].exists
      /\ student[loc[r].applicant].exists

\* The part of it the handlers keep: the written items stay
C13_MailFailureKeepsItems ==
  \A r \in Reqs :
    (/\ Succeeded(r, "UpdateCommand")
     /\ Succeeded(r, "PutCommand")
     /\ \/ Failed(r, "generateInvoicePDF")
        \/ Failed(r, "getNextInvoiceNumber")
        \/ Failed(r, "SendEmail")) =>
      /\ application[loc[r].applicant].paymentStatus \in {"paid", "pending"}
      /\ student[loc[r].applicant].enrolledAt = r

----------------------------------------------------------------------------
\* C14: every invocation returns exactly one response, whatever each
\* collaborator call answers or throws, a failure of the invoice-number
\* counter inside the rendering of the invoice included: the handler is
\* never left awaiting a promise that nothing will settle ("hung"), and an
\* invocation that has returned has a response.
C14_NeverLeftPending ==
  \A r \in Reqs :
    /\ pc[r] # "hung"
    /\ pc[r] = "done" => resp[r] # noResponse

\* The handlers that render the invoice without the counter are never left
\* pending
C14_ReturnsWithoutCounter ==
  \A r \in Reqs :
    version # index_2 =>
      /\ pc[r] # "hung"
      /\ pc[r] = "done" => resp[r] # noResponse

\* index_2 left pending by a failed counter update, after both writes
C14_CounterFailureHangs ==
  \E r \in Reqs :
    /\ pc[r] = "hung"
    /\ Failed(r, "getNextInvoiceNumber")
    /\ Succeeded(r, "PutCommand")
----------------------------------------------------------------------------
\* C15: a request that passed the field checks and whose applicant has no
\* Application record is answered 404 "Application not found" and has
\* charged nothing, written nothing and mailed nothing.
C15_UnknownApplicantNotFound ==
  \A r \in Reqs :
    (Succeeded(r, "GetCommand") /\ ~loc[r].item.exists) =>
      /\ pc[r] = "done"
      /\ resp[r].statusCode = 404
      /\ resp[r].body = errorBody("Application not found. Please apply first.")
      /\ NoEffect(r)

\* A complete credit-card request of an applicant who never applied has
\* been answered
C15_UnknownApplicantAnswered ==
  \E r \in Reqs :
    /\ Succeeded(r, "GetCommand")
    /\ ~loc[r].item.exists
    /\ F(r).paymentMethod = "credit-card"
    /\ TruthyToken(F(r).paymentMethodId)
    /\ resp[r].statusCode = 404
----------------------------------------------------------------------------
\* C16: paymentMethodId is required exactly for the credit-card method.  A
\* credit-card request without it, whose application was read, is answered
\* 400 and has charged nothing and written nothing; when the request is
\* valid in everything else the error names the payment method ID.  Two
\* invoice requests that differ only in paymentMethodId, one with and one
\* without, give the same response and have the same effects.
C16_TokenRequiredForCardOnly ==
  /\ \A r \in Reqs :
       (/\ F(r).paymentMethod = "credit-card"
        /\ ~TruthyToken(F(r).paymentMethodId)
        /\ Succeeded(r, "GetCommand")
        /\ loc[r].item.exists) =>
         /\ pc[r] = "done"
         /\ resp[r].statusCode = 400
         /\ NoEffect(r)
         /\ (/\ loc[r].item.paymentStatus # "paid"
             /\ SeatsAsked(r) \in 0..40
             /\ DenotesCatalogTier(Selector(r))) =>
              resp[r].body =
                errorBody("Payment method ID is required for credit card payments.")
  /\ (/\ req[1].f.paymentMethod = "invoice"
      /\ req[2] = tokenTwin(req[1])
      /\ Finished(1)
      /\ Finished(2)) =>
       TwinView(1) = TwinView(2)

\* A card request without the token has been refused, and its twin with
\* the token has been charged
C16_CardWithoutTokenRefused ==
  /\ req[1].f.paymentMethod = "credit-card"
  /\ req[1].f.paymentMethodId = noToken
  /\ req[2] = tokenTwin(req[1])
  /\ Rejected(1, "Payment method ID is required for credit card payments.")
  /\ pc[2] = "done"
  /\ Succeeded(2, "paymentIntents.create")

\* Invoice twins, with and without the token, have both been invoiced
C16_InvoiceTwinsInvoiced ==
  /\ req[1].f.paymentMethod = "invoice"
  /\ req[2] = tokenTwin(req[1])
  /\ \A r \in Reqs : pc[r] = "done" /\ resp[r].statusCode = 200
----------------------------------------------------------------------------
\* C17: an OPTIONS preflight is answered 204 with an empty body and the CORS
\* headers, whatever its body is (the body is not parsed, so one that is no
\* JSON text is answered the same), and calls no collaborator.
C17_PreflightAnswered ==
  \A r \in Reqs :
    (req[r].httpMethod = "OPTIONS" /\ Started(r)) =>
      /\ pc[r] = "done"
      /\ resp[r].statusCode = 204
      /\ resp[r].body.empty
      /\ resp[r].headers = corsHeaders
      /\ calls[r] = <<>>

\* A preflight whose body is no JSON text has been answered
C17_MalformedPreflightAnswered ==
  \E r \in Reqs :
    /\ req[r].httpMethod = "OPTIONS"
    /\ req[r].malformed
    /\ pc[r] = "done"
    /\ resp[r].statusCode = 204
----------------------------------------------------------------------------
\* Invocation r has passed every check before the add-ons: its application
\* was read, is not paid, and its tier is one of the catalog
ReachedAddOns(r) ==
  /\ Succeeded(r, "GetCommand")
  /\ loc[r].item.exists
  /\ loc[r].item.paymentStatus # "paid"
  /\ DenotesCatalogTier(Selector(r))

\* C18: a request whose additionalSeats parses to an integer outside 0..40
\* is answered with the 400 that names the seats, and one whose
\* addonSupportHours parses to an integer outside 0..100 (the seats being in
\* range, and the handler being the one that reads the support hours) with
\* the 400 that names the support hours; neither has charged, written or
\* mailed anything.
C18_AddOnsOutOfRangeRejected ==
  \A r \in Reqs :
    ReachedAddOns(r) =>
      /\ SeatsAsked(r) \notin 0..40 =>
           /\ Rejected(r, "Additional seats must be between 0 and 40.")
           /\ NoEffect(r)
      /\ (SeatsAsked(r) \in 0..40 /\ HoursAsked(r) \notin 0..100) =>
           /\ Rejected(r, "Addon support hours must be between 0 and 100.")
           /\ NoEffect(r)

\* A card request for 101 support hours, its token supplied, has been
\* rejected
C18_TooManyHoursRejected ==
  \E r \in Reqs :
    /\ ReachedAddOns(r)
    /\ HoursAsked(r) = 101
    /\ F(r).paymentMethod = "credit-card"
    /\ TruthyToken(F(r).paymentMethodId)
    /\ Rejected(r, "Addon support hours must be between 0 and 100.")
----------------------------------------------------------------------------
\* The invocation that wrote the record of `applicant` captured an amount
\* for it
CapturedByWriter(applicant) ==
  \E i \in 1..Len(captures) :
    /\ captures[i].by = student[applicant].enrolledAt
    /\ captures[i].applicant = applicant

\* C19: every enrollment record written has baseSeats 10 and
\* totalSeats = 10 + additionalSeats with additionalSeats in 0..40; its
\* amountPaid is its totalAmount when the request that wrote it had captured
\* the amount at the gateway, and 0 otherwise.
C19_EnrollmentRecordsConsistent ==
  \A k \in Keys :
    student[k].exists =>
      /\ student[k].baseSeats = 10
      /\ student[k].additionalSeats \in 0..40
      /\ student[k].totalSeats = 10 + student[k].additionalSeats
      /\ student[k].amountPaid =
           IF CapturedByWriter(k) THEN student[k].totalAmount ELSE 0

\* A record written by one of these invocations, paid by card, with 40
\* more seats
C19_RecordWritten ==
  \E k \in Keys :
    /\ student[k].exists
    /\ student[k].enrolledAt \in Reqs
    /\ student[k].additionalSeats = 40
    /\ student[k].totalSeats = 50
    /\ student[k].amountPaid > 0
    /\ student[k].amountPaid = student[k].totalAmount
----------------------------------------------------------------------------
\* The errors of validation (a required field missing or no valid value, a
\* tier outside the catalog, an add-on out of range, the payment token
\* missing) and of the already-paid conflict
ValidationErrors ==
  UNION {ErrorsNaming(f, RequiredFields[i]) :
           f \in {F(r) : r \in Reqs}, i \in 1..Len(RequiredFields)}
  \cup {"Payment method is required.",
        "Payment method must be \"credit-card\" or \"invoice\".",
        invalidTierError(version),
        "Additional seats must be between 0 and 40.",
        "Addon support hours must be between 0 and 100.",
        "Payment method ID is required for credit card payments.",
        alreadyPaidError}

\* C20: a request that ends in a validation error or in the already-paid
\* conflict has, when it returns, charged nothing at the gateway, written
\* nothing to the store, taken no invoice number and sent no email.
C20_RejectedBeforeAnyEffect ==
  \A r \in Reqs :
    (/\ pc[r] = "done"
     /\ resp[r].statusCode = 400
     /\ resp[r].body.error \in ValidationErrors) =>
      NoEffect(r)

\* A card request with its token, for an application already paid, has been
\* refused as a conflict after the application was read
C20_ConflictAnswered ==
  \E r \in Reqs :
    /\ F(r).paymentMethod = "credit-card"
    /\ TruthyToken(F(r).paymentMethodId)
    /\ Succeeded(r, "GetCommand")
    /\ Rejected(r, alreadyPaidError)
----------------------------------------------------------------------------
\* The place of a collaborator call in the card flow: the Application read,
\* the charge, the Application update, the EnrollmentRecord put, the
\* rendering of the invoice (its templates, its number, the document), the
\* mail send
CallOrder ==
  <<"GetCommand", "paymentIntents.create", "UpdateCommand", "PutCommand",
    "readFile", "getNextInvoiceNumber", "generateInvoicePDF", "SendEmail">>

Place(op) == CHOOSE i \in 1..Len(CallOrder) : CallOrder[i] = op

\* C21: within one credit-card request the collaborator calls are made in
\* the order read, charge, update, put, invoice rendering, mail send, each
\* at most once; a call is made only after every call before it has
\* completed (with success: a failed one ends the request), and a store
\* write is made only after the gateway has answered 'succeeded'.
C21_CardCallsInOrder ==
  \A r \in Reqs :
    F(r).paymentMethod = "credit-card" =>
      /\ \A i, j \in 1..Len(calls[r]) :
           i < j => /\ Place(calls[r][i].op) < Place(calls[r][j].op)
                    /\ calls[r][i].ok
      /\ (\E op \in StoreWrites : Made(r, op)) =>
           /\ Succeeded(r, "paymentIntents.create")
           /\ \E i \in 1..Len(captures) : captures[i].by = r

\* A card request has made every call, the mail send included
C21_CardRequestMailed ==
  \E r \in Reqs :
    /\ F(r).paymentMethod = "credit-card"
    /\ Succeeded(r, "GetCommand")
    /\ Succeeded(r, "paymentIntents.create")
    /\ Succeeded(r, "UpdateCommand")
    /\ Succeeded(r, "PutCommand")
    /\ Succeeded(r, "generateInvoicePDF")
    /\ Succeeded(r, "SendEmail")
----------------------------------------------------------------------------
\* C22: the validity of the tier is checked with its presence, before the
\* payment method, the company, the job title, the phone and the country: a
\* request whose applicant and name are present, whose tier is present and
\* is no tier of the catalog, and whose company is missing or whose payment
\* method is unknown, is answered with the 400 that names the tier.
C22_TierValidityBeforeLaterFields ==
  \A r \in Reqs :
    (/\ Post(r)
     /\ Started(r)
     /\ ~req[r].malformed
     /\ FirstMissing(F(r)) > 3
     /\ ~DenotesCatalogTier(Selector(r))) =>
      Rejected(r, invalidTierError(version))

\* What the handlers do: the later fields are checked first, and the tier
\* error is returned only once they are all there and the application read
C22_TierValidityAfterAllFields ==
  \A r \in Reqs :
    (/\ Post(r)
     /\ Started(r)
     /\ ~req[r].malformed
     /\ FirstMissing(F(r)) > 3
     /\ ~DenotesCatalogTier(Selector(r))) =>
      /\ pc[r] = "done"
      /\ resp[r].body.error \in ErrorsNaming(F(r), RequiredFields[FirstMissing(F(r))])
      /\ calls[r] = <<>>

\* A request with an unknown tier and no company has been answered
C22_UnknownTierNoCompany ==
  \E r \in Reqs :
    /\ Post(r)
    /\ Selector(r) = IF version = index_2 THEN unknownTier(version)
                      ELSE Str(unknownTier(version))
    /\ F(r).company = noToken
    /\ F(r).paymentMethod = "credit-card"
    /\ Rejected(r, "Company is required.")
----------------------------------------------------------------------------
\* The add-on value is provided and does not parse to an integer
NotAnInteger(v) == v # undefined /\ parseInt(v).nan

\* C23: a request that provides an additionalSeats or addonSupportHours
\* value that does not parse to an integer, and that passed every check
\* before the add-ons, is answered with a 400 and has charged, written and
\* mailed nothing; it is not accepted with the add-on counted as 0.
C23_UnparsableAddOnRejected ==
  \A r \in Reqs :
    (/\ ReachedAddOns(r)
     /\ \/ NotAnInteger(F(r).additionalSeats)
        \/ version = index_2 /\ NotAnInteger(F(r).addonSupportHours)
     /\ pc[r] = "done") =>
      resp[r].statusCode = 400 /\ NoEffect(r)

\* An invoice request for "abc" seats has been accepted with 0 seats
C23_UnparsableSeatsTakenAsZero ==
  \E r \in Reqs :
    /\ ReachedAddOns(r)
    /\ F(r).additionalSeats = Str(<<"a", "b", "c">>)
    /\ pc[r] = "done"
    /\ resp[r].statusCode = 200
    /\ student[loc[r].applicant].enrolledAt = r
    /\ student[loc[r].applicant].additionalSeats = 0
----------------------------------------------------------------------------
\* The invocations whose invoice document was generated, and those that the
\* counter gave a number
Documents == {r \in Reqs : Succeeded(r, "generateInvoicePDF")}
Numbered == {r \in Reqs : Succeeded(r, "getNextInvoiceNumber")}

\* C24: the invoice numbers come from one shared counter, incremented once
\* for each document: starting from a store without a counter, the numbers
\* issued are 5000, 5001, ... with none skipped or repeated, the counter
\* holds the last of them, every generated document has one of them, and no
\* two documents have the same number, however the requests interleave.
C24_InvoiceNumbersFromCounter ==
  /\ \A r1, r2 \in Documents :
       r1 # r2 => loc[r1].invoiceNum # loc[r2].invoiceNum
  /\ Documents \subseteq Numbered
  /\ {loc[r].invoiceNum : r \in Numbered} =
       (invoiceStart + 1)..(invoiceStart + Cardinality(Numbered))
  /\ invoiceStart + 1 = 5000
  /\ Numbered # {} => invoiceCounter.number = invoiceStart + Cardinality(Numbered)

\* The handler that numbers its invoices by the counter does so
C24_InvoiceNumbersFromCounterByIndex2 ==
  version = index_2 => C24_InvoiceNumbersFromCounter

\* Two documents generated with one number
C24_TwoDocumentsOneNumber ==
  /\ Documents = Reqs
  /\ loc[1].invoiceNum = loc[2].invoiceNum
  /\ \A r \in Reqs : pc[r] = "done" /\ resp[r].statusCode = 200
----------------------------------------------------------------------------
\* C25: in a sequence of requests for one applicant that do not overlap, in
\* which any store write, document generation or mail send may fail, the
\* gateway captures at most once for the applicant: a retry after a step
\* that failed after the capture does not charge the card again.
C25_RetryNeverChargesAgain ==
  \A k \in Keys : Captured(k) <= 1

\* The retry of a request whose Application update failed after the capture
\* has been charged too, by the handler that checks for a paid Application
C25_RetryChargedAgain ==
  /\ version = index_2
  /\ Succeeded(1, "paymentIntents.create")
  /\ Failed(1, "UpdateCommand")
  /\ pc[1] = "done"
  /\ Succeeded(2, "paymentIntents.create")
  /\ Captured(lowerKey) = 2

\* What the handlers that check for a paid Application do ensure: once the
\* Application update of a card request has succeeded, a later request is
\* not charged
C25_NoChargeOncePaidRecorded ==
  (version # part_000 /\ Succeeded(1, "UpdateCommand")
   /\ F(1).paymentMethod = "credit-card") =>
    ~Made(2, "paymentIntents.create")
----------------------------------------------------------------------------
\* Invocation r has started and is not over
InFlight(r) == pc[r] \notin {"start", "unused", "done", "hung"}

\* C26: starting from an unpaid Application with no EnrollmentRecord,
\* whenever no request is in flight the Application is 'paid' exactly when
\* an EnrollmentRecord of paymentStatus 'complete' exists for the applicant,
\* store writes that fail part-way through a request included.
C26_PaidIffEnrolledComplete ==
  (\A r \in Reqs : ~InFlight(r)) =>
    \A k \in Keys :
      application[k].paymentStatus = "paid" <=>
        (student[k].exists /\ student[k].paymentStatus = "complete")

\* A card request has returned after its EnrollmentRecord put failed: the
\* Application is paid and there is no EnrollmentRecord
C26_PaidWithoutRecord ==
  /\ pc[1] = "done"
  /\ pc[2] = "start"
  /\ Succeeded(1, "UpdateCommand")
  /\ Failed(1, "PutCommand")
  /\ application[lowerKey].paymentStatus = "paid"
  /\ ~student[lowerKey].exists
----------------------------------------------------------------------------
\* C27: a 200 response whose body has success: true is returned only by a
\* request whose Application update, EnrollmentRecord put and mail send have
\* all succeeded, none of its calls having failed, and, when it pays by
\* card, whose charge the gateway answered 'succeeded'.
C27_SuccessMeansAllDone ==
  \A r \in Reqs :
    (pc[r] = "done" /\ resp[r].statusCode = 200 /\ resp[r].body.success = "true") =>
      /\ Succeeded(r, "UpdateCommand")
      /\ Succeeded(r, "PutCommand")
      /\ Succeeded(r, "SendEmail")
      /\ NoFailure(r)
      /\ \E i \in 1..Len(outbox) : outbox[i].to = loc[r].applicant
      /\ F(r).paymentMethod = "credit-card" =>
           /\ Succeeded(r, "paymentIntents.create")
           /\ \E i \in 1..Len(captures) : captures[i].by = r

\* An invoice request has been answered success: true
C27_InvoiceSuccessReturned ==
  \E r \in Reqs :
    /\ F(r).paymentMethod = "invoice"
    /\ pc[r] = "done"
    /\ resp[r].statusCode = 200
    /\ resp[r].body.success = "true"
    /\ Succeeded(r, "SendEmail")
----------------------------------------------------------------------------
\* Invocation 1 was an invoice request that made both its writes, and is over
InvoiceRequestedBefore ==
  /\ F(1).paymentMethod = "invoice"
  /\ Succeeded(1, "UpdateCommand")
  /\ Succeeded(1, "PutCommand")
  /\ over(1)

\* C28: a request for an Application that a prior invoice request left
\* 'pending' is accepted, not refused as already paid.  If it pays by card
\* and none of its calls fails, the Application becomes 'paid' and the
\* EnrollmentRecord is replaced by its own, of paymentStatus 'complete'; if
\* it asks for an invoice and none of its calls fails, the Application stays
\* 'pending' and the EnrollmentRecord is rewritten with its values.
C28_PendingIsAccepted ==
  InvoiceRequestedBefore =>
    /\ Succeeded(2, "GetCommand") =>
         /\ loc[2].item.paymentStatus = "pending"
         /\ ~Rejected(2, alreadyPaidError)
         /\ pc[2] = "done" => Len(calls[2]) > 1
    /\ (pc[2] = "done" /\ NoFailure(2) /\ Made(2, "SendEmail")) =>
         /\ resp[2].statusCode = 200
         /\ student[lowerKey].enrolledAt = 2
         /\ student[lowerKey].additionalSeats = SeatsAsked(2)
         /\ student[lowerKey].paymentMethod = F(2).paymentMethod
         /\ IF F(2).paymentMethod = "credit-card"
            THEN /\ application[lowerKey].paymentStatus = "paid"
                 /\ student[lowerKey].paymentStatus = "complete"
                 /\ student[lowerKey].amountPaid = student[lowerKey].totalAmount
            ELSE /\ application[lowerKey].paymentStatus = "pending"
                 /\ student[lowerKey].paymentStatus = "pending"
                 /\ student[lowerKey].amountPaid = 0

\* A card request for other seats has paid for an Application that was
\* 'pending'
C28_PendingThenPaid ==
  /\ InvoiceRequestedBefore
  /\ F(2).paymentMethod = "credit-card"
  /\ SeatsAsked(2) # SeatsAsked(1)
  /\ pc[2] = "done"
  /\ resp[2].statusCode = 200
  /\ application[lowerKey].paymentStatus = "paid"
  /\ student[lowerKey].paymentStatus = "complete"
----------------------------------------------------------------------------
\* Both invocations were accepted, made both their writes, and are over
BothWrote ==
  \A r \in Reqs :
    /\ Succeeded(r, "UpdateCommand")
    /\ Succeeded(r, "PutCommand")
    /\ over(r)

\* C29: however the store writes of two concurrent accepted requests for one
\* applicant interleave, once both are over the Application and the
\* EnrollmentRecord describe the same request: they have the same
\* paymentMethod, and the Application's paymentAmount is the
\* EnrollmentRecord's totalAmount.
C29_ItemsDescribeOneRequest ==
  BothWrote =>
    /\ application[lowerKey].paymentMethod = student[lowerKey].paymentMethod
    /\ application[lowerKey].paymentAmount = student[lowerKey].totalAmount

\* Both requests answered 200, the Application left by the invoice request
\* and the EnrollmentRecord by the card payment
C29_ItemsOfTwoRequests ==
  /\ BothWrote
  /\ \A r \in Reqs : pc[r] = "done" /\ resp[r].statusCode = 200
  /\ application[lowerKey].paymentMethod = "invoice"
  /\ application[lowerKey].paymentStatus = "pending"
  /\ student[lowerKey].paymentMethod = "credit-card"
  /\ student[lowerKey].paymentStatus = "complete"
  /\ application[lowerKey].paymentAmount # student[lowerKey].totalAmount
----------------------------------------------------------------------------
\* The applicant invocation r sent, as the client wrote it, in lower case
LowerCased(r) == toLowerCase(req[r].f.applicant.s)

\* C30: the applicant email is lowercased before the Application read, the
\* store writes and the gateway metadata: a request that has read the
\* store has read, and writes and charges for, the lower-case key, so that
\* no item is kept under a key with capitals; and a resubmission, in any
\* letter case, for an Application that an earlier request paid is rejected
\* as already paid, with nothing charged, written or mailed.
C30_ApplicantCaseFolded ==
  \A r \in Reqs :
    (Post(r) /\ ~req[r].wrapped /\ ~req[r].malformed
     /\ Succeeded(r, "GetCommand")) =>
      /\ loc[r].applicant = LowerCased(r)
      /\ \A k \in Keys :
           (application[k].exists \/ student[k].exists) => k = toLowerCase(k)
      /\ \A i \in 1..Len(captures) :
           captures[i].by = r => captures[i].applicant = LowerCased(r)
      /\ application[LowerCased(r)].paidAt = earlier =>
           Rejected(r, alreadyPaidError) /\ NoEffect(r)

\* The handler that lowercases the applicant does so
C30_ApplicantCaseFoldedByIndex2 ==
  version = index_2 => C30_ApplicantCaseFolded

\* The resubmission "A@x" for the paid Application of "a@x" has been answered
\* that no Application was found, by a handler that checks for a paid one
C30_CapitalsNotFound ==
  \E r \in Reqs :
    /\ version = index_1
    /\ req[r].f.applicant = Str(mixedKey)
    /\ application[lowerKey].paidAt = earlier
    /\ Succeeded(r, "GetCommand")
    /\ pc[r] = "done"
    /\ resp[r].statusCode = 404
====
